---- MODULE Spec2Model ----
(***************************************************************************)
(* Model of app/src/App.tsx: the WBS viewer.  The component derives a base *)
(* tree layout from the loaded document (first useMemo), keeps the view    *)
(* mode, the focus node and the context menu as state, and derives the     *)
(* displayed nodes and edges from them (second useMemo) on every render.   *)
(*                                                                         *)
(* Node ids are strings; they are modelled as tuples of one-character      *)
(* strings so that Number(id) and String.localeCompare can be computed.    *)
(***************************************************************************)
EXTENDS Integers, Sequences, FiniteSets, TLC

\* ---------------------------------------------------------------- bounds
MaxNodes == 3
MaxEdges == 3

\* ------------------------------------------------------- JavaScript values
null == <<"null">>
undefined == <<"undefined">>

\* A value is truthy unless it is null, undefined or the empty string.
Truthy(v) == v # null /\ v # undefined /\ v # <<>>

Digits == {"0", "1", "2", "3", "4", "5", "6", "7", "8", "9"}

DigitValue(c) ==
  CASE c = "0" -> 0 [] c = "1" -> 1 [] c = "2" -> 2 [] c = "3" -> 3
    [] c = "4" -> 4 [] c = "5" -> 5 [] c = "6" -> 6 [] c = "7" -> 7
    [] c = "8" -> 8 [] c = "9" -> 9

\* Number.isNaN(Number(id)) is modelled by the value NaN.
NaN == -1

RECURSIVE DigitsValue(_)
DigitsValue(s) ==
  IF s = <<>> THEN 0
  ELSE 10 * DigitsValue(SubSeq(s, 1, Len(s) - 1)) + DigitValue(s[Len(s)])

\* Number(id) on strings of digits and letters: the empty string is 0, a
\* string of decimal digits is its value, anything else is NaN.
Number(id) ==
  IF \A i \in 1..Len(id) : id[i] \in Digits THEN DigitsValue(id) ELSE NaN

\* Collation rank of a character: digits sort before letters.
CollationRank(c) ==
  IF c \in Digits THEN DigitValue(c)
  ELSE CASE c = "a" -> 10 [] c = "b" -> 11 [] c = "c" -> 12

\* String.prototype.localeCompare on digit/lower-case-letter strings.
RECURSIVE localeCompare(_, _)
localeCompare(a, b) ==
  IF a = <<>> /\ b = <<>> THEN 0
  ELSE IF a = <<>> THEN -1
  ELSE IF b = <<>> THEN 1
  ELSE IF CollationRank(Head(a)) < CollationRank(Head(b)) THEN -1
  ELSE IF CollationRank(Head(a)) > CollationRank(Head(b)) THEN 1
  ELSE localeCompare(Tail(a), Tail(b))

\* The comparator handed to nodesAtLevel.sort.
compareIds(a, b) ==
  LET aNum == Number(a)
      bNum == Number(b)
  IN  IF aNum # NaN /\ bNum # NaN /\ aNum # bNum
      THEN aNum - bNum
      ELSE localeCompare(a, b)

Range(s) == {s[i] : i \in 1..Len(s)}

Orderings(s) ==
  {p \in [1..Len(s) -> Range(s)] : Range(p) = Range(s)}

\* Array.prototype.sort with compareIds.  With a consistent comparator the
\* result is the one sequence ordered by it; with an inconsistent one
\* ECMAScript leaves the order implementation-defined.
SortOutcomes(s) ==
  LET ordered == {p \in Orderings(s) :
                    \A i, j \in 1..Len(p) : i < j => compareIds(p[i], p[j]) <= 0}
  IN  IF ordered # {} THEN ordered ELSE Orderings(s)

\* An own property key that is a canonical array index.
IsArrayIndex(id) ==
  /\ Len(id) > 0
  /\ \A i \in 1..Len(id) : id[i] \in Digits
  /\ (Len(id) = 1 \/ id[1] # "0")

RECURSIVE AscendingIndexKeys(_)
AscendingIndexKeys(S) ==
  IF S = {} THEN <<>>
  ELSE LET m == CHOOSE k \in S : \A o \in S : Number(k) <= Number(o)
       IN  <<m>> \o AscendingIndexKeys(S \ {m})

\* Object.keys(nodeMap): array-index keys in ascending numeric order, then
\* the other string keys in the order they were first inserted.
ObjectKeys(inserted) ==
  AscendingIndexKeys({k \in Range(inserted) : IsArrayIndex(k)})
    \o SelectSeq(inserted, LAMBDA k : ~IsArrayIndex(k))

\* ------------------------------------------------------ base layout (1)
xGap == 260
yGap == 120

\* The WbsEdge built from a raw edge of the document.
BuildEdge(e) ==
  [id |-> e.id, source |-> e.source, target |-> e.target,
   label |-> e.type, wbsType |-> e.type]

BuildEdges(rawE) == [i \in 1..Len(rawE) |-> BuildEdge(rawE[i])]

HierarchyEdgesOf(rawE) ==
  SelectSeq(BuildEdges(rawE), LAMBDA e : e.wbsType = "HIERARCHY")

DependencyEdgesOf(rawE) ==
  SelectSeq(BuildEdges(rawE), LAMBDA e : e.wbsType # "HIERARCHY")

\* childrenByParent[p] || []
ChildrenByParent(hEdges, p) ==
  LET sel == SelectSeq(hEdges, LAMBDA e : e.source = p)
  IN  [i \in 1..Len(sel) |-> sel[i].target]

\* Mutant: the set is filled with the source of each edge.
ChildSetOfSources(hEdges) == {hEdges[i].source : i \in 1..Len(hEdges)}

\* childSet: the targets of the HIERARCHY edges.
ChildSet(hEdges) == {hEdges[i].target : i \in 1..Len(hEdges)}

AllNodeIds(rawN) == ObjectKeys([i \in 1..Len(rawN) |-> rawN[i].id])

Roots(allNodeIds, hEdges) ==
  SelectSeq(allNodeIds, LAMBDA id : id \notin ChildSet(hEdges))

\* children.forEach: a child without a level gets level + 1 and is queued.
RECURSIVE VisitChildren(_, _, _)
VisitChildren(children, level, st) ==
  IF children = <<>> THEN st
  ELSE LET childId == Head(children)
           next == IF childId \notin DOMAIN st.levels
                   THEN [levels |-> st.levels @@ (childId :> level + 1),
                         queue |-> Append(st.queue, childId)]
                   ELSE st
       IN  VisitChildren(Tail(children), level, next)

\* while (queue.length > 0) { parentId = queue.shift(); ... }
RECURSIVE BfsLoop(_, _, _)
BfsLoop(levels, queue, hEdges) ==
  IF queue = <<>> THEN levels
  ELSE LET parentId == Head(queue)
           st == VisitChildren(ChildrenByParent(hEdges, parentId),
                               levels[parentId],
                               [levels |-> levels, queue |-> Tail(queue)])
       IN  BfsLoop(st.levels, st.queue, hEdges)

\* The levels record after the BFS and the level-0 default for the rest.
Levels(allNodeIds, hEdges) ==
  LET roots == Roots(allNodeIds, hEdges)
      bfs == BfsLoop([id \in Range(roots) |-> 0], roots, hEdges)
  IN  [id \in Range(allNodeIds) \cup DOMAIN bfs |->
         IF id \in DOMAIN bfs THEN bfs[id] ELSE 0]

\* grouped[level]: the nodes of a level in allNodeIds order.
Grouped(allNodeIds, levels, level) ==
  SelectSeq(allNodeIds, LAMBDA id : levels[id] = level)

RECURSIVE AscendingInts(_)
AscendingInts(S) ==
  IF S = {} THEN <<>>
  ELSE LET m == CHOOSE k \in S : \A o \in S : k <= o
       IN  <<m>> \o AscendingInts(S \ {m})

\* nodesAtLevel.forEach((node, index) => node.position = ...)
PlaceLevel(sortedIds, level) ==
  [i \in 1..Len(sortedIds) |->
     [id |-> sortedIds[i],
      position |-> [x |-> level * xGap, y |-> (i - 1) * yGap]]]

\* The baseNodes sequences the level loop can produce.
RECURSIVE BaseNodesFrom(_, _, _)
BaseNodesFrom(levelSeq, allNodeIds, levels) ==
  IF levelSeq = <<>> THEN {<<>>}
  ELSE {PlaceLevel(s, Head(levelSeq)) \o rest :
          s \in SortOutcomes(Grouped(allNodeIds, levels, Head(levelSeq))),
          rest \in BaseNodesFrom(Tail(levelSeq), allNodeIds, levels)}

BaseNodeOutcomes(rawN, rawE) ==
  LET allNodeIds == AllNodeIds(rawN)
      levels == Levels(allNodeIds, HierarchyEdgesOf(rawE))
  IN  BaseNodesFrom(AscendingInts({levels[id] : id \in Range(allNodeIds)}),
                    allNodeIds, levels)

\* ------------------------------------------------------ derived view (4)
r == 220

\* 1000 * Math.cos(2 * Math.PI * index / count), rounded, for count <= 5.
cosMilli(index, count) ==
  CASE count = 1 -> <<1000>>[index + 1]
    [] count = 2 -> <<1000, -1000>>[index + 1]
    [] count = 3 -> <<1000, -500, -500>>[index + 1]
    [] count = 4 -> <<1000, 0, -1000, 0>>[index + 1]
    [] count = 5 -> <<1000, 309, -809, -809, 309>>[index + 1]

\* 1000 * Math.sin(2 * Math.PI * index / count), rounded, for count <= 5.
sinMilli(index, count) ==
  CASE count = 1 -> <<0>>[index + 1]
    [] count = 2 -> <<0, 0>>[index + 1]
    [] count = 3 -> <<0, 866, -866>>[index + 1]
    [] count = 4 -> <<0, 1000, 0, -1000>>[index + 1]
    [] count = 5 -> <<0, 951, 588, -588, -951>>[index + 1]

\* Position of the neighbor at a 0-based index among count neighbors, in
\* thousandths rounded down to view units.
RadialPosition(index, count) ==
  [x |-> 0 + (r * cosMilli(index, count)) \div 1000,
   y |-> 0 + (r * sinMilli(index, count)) \div 1000]

IncidentEdges(focus, hEdges, dEdges) ==
  SelectSeq(hEdges \o dEdges, LAMBDA e : e.source = focus \/ e.target = focus)

NeighborIds(focus, incident) ==
  {incident[i].target : i \in {k \in 1..Len(incident) : incident[k].source = focus}}
    \cup
  {incident[i].source : i \in {k \in 1..Len(incident) : incident[k].target = focus}}

\* Mutant: the global view shows the dependency edges too.
GlobalViewWithDependencies(bNodes, hEdges, dEdges) ==
  [nodes |-> bNodes, edges |-> hEdges \o dEdges]

\* The global view: the WBS tree with the hierarchy edges only.
GlobalView(bNodes, hEdges, dEdges) == [nodes |-> bNodes, edges |-> hEdges]

\* The second useMemo: the nodes and edges handed to the renderer.
View(mode, focus, bNodes, hEdges, dEdges) ==
  IF mode = "GLOBAL" \/ ~Truthy(focus)
  THEN GlobalView(bNodes, hEdges, dEdges)
  ELSE LET found == SelectSeq(bNodes, LAMBDA n : n.id = focus)
       IN  IF found = <<>>
           THEN GlobalView(bNodes, hEdges, dEdges)
           ELSE LET center == found[1]
                    incidentEdges == IncidentEdges(focus, hEdges, dEdges)
                    neighborIds == NeighborIds(focus, incidentEdges)
                    neighbors == SelectSeq(bNodes, LAMBDA n : n.id \in neighborIds)
                    centerNode == [center EXCEPT !.position = [x |-> 0, y |-> 0]]
                    neighborNodes ==
                      [i \in 1..Len(neighbors) |->
                         [neighbors[i] EXCEPT
                            !.position = RadialPosition(i - 1, Len(neighbors))]]
                IN  [nodes |-> <<centerNode>> \o neighborNodes,
                     edges |-> incidentEdges]

\* ------------------------------------------------------------- state
VARIABLES
  rawNodes,        \* (wbs as any).nodes, reduced to the id of each node
  rawEdges,        \* (wbs as any).edges: id, source, target, type
  mounted,         \* the component has rendered (both useMemo have run)
  baseNodes,       \* first useMemo: positioned nodes
  hierarchyEdges,  \* first useMemo: edges of type HIERARCHY
  dependencyEdges, \* first useMemo: the other edges
  viewMode,        \* useState<ViewMode>
  focusNodeId,     \* useState<string | null>
  contextMenu,     \* useState<ContextMenuState>
  nodes,           \* second useMemo: nodes handed to ReactFlow
  edges,           \* second useMemo: edges handed to ReactFlow
  lastEvent        \* history: the most recent gesture and the mode before it

vars == <<rawNodes, rawEdges, mounted, baseNodes, hierarchyEdges,
          dependencyEdges, viewMode, focusNodeId, contextMenu, nodes, edges,
          lastEvent>>

doc == <<rawNodes, rawEdges>>
base == <<baseNodes, hierarchyEdges, dependencyEdges>>

\* ------------------------------------------------------------- inputs
\* "", "2", "10", "1a": the empty id, two numeric ids and a mixed one.
IdPool == {<<>>, <<"2">>, <<"1", "0">>, <<"1", "a">>}

EdgeTypes == {"HIERARCHY", "DOC_DEPENDS_ON"}

\* Pointer positions (event.clientX, event.clientY) of a right-click.
Pointers == {[x |-> 10, y |-> 20], [x |-> 30, y |-> 40]}

\* Node arrays with unique ids, of at most n nodes.
NodeArrays(ids, n) ==
  UNION {{s \in [1..k -> [id : ids]] :
            \A i, j \in 1..k : i # j => s[i].id # s[j].id} : k \in 0..n}

\* The raw edges an array may hold at index i: the id of an edge is its
\* index, and only the first anyType edges may be dependency edges.
EdgesAt(ends, anyType, i) ==
  [id : {i}, source : ends, target : ends,
   type : IF i <= anyType THEN EdgeTypes ELSE {"HIERARCHY"}]

RECURSIVE EdgeArraysOfLen(_, _, _)
EdgeArraysOfLen(ends, anyType, k) ==
  IF k = 0 THEN {<<>>}
  ELSE {Append(a, e) : a \in EdgeArraysOfLen(ends, anyType, k - 1),
                       e \in EdgesAt(ends, anyType, k)}

\* Edge arrays of at most m edges.
EdgeArrays(ends, anyType, m) ==
  UNION {EdgeArraysOfLen(ends, anyType, k) : k \in 0..m}

\* The useState initial values, shared by every specification.
InitState ==
  /\ mounted = FALSE
  /\ baseNodes = <<>>
  /\ hierarchyEdges = <<>>
  /\ dependencyEdges = <<>>
  /\ contextMenu = [visible |-> FALSE, x |-> 0, y |-> 0, type |-> "canvas",
                    nodeId |-> undefined]
  /\ nodes = <<>>
  /\ edges = <<>>
  /\ lastEvent = [kind |-> "none", nodeId |-> undefined, prevMode |-> "GLOBAL"]

\* ------------------------------------------------------------ actions
\* The event recorded in the history variable: its kind, the node it is
\* about (for a menu item, the node of the right-click that opened the
\* menu) and the view mode it found.
Event(kind, nodeId) == [kind |-> kind, nodeId |-> nodeId, prevMode |-> viewMode]

\* First render: the base layout is computed from the document and the view
\* is derived from the current view state.
Mount ==
  /\ ~mounted
  /\ mounted' = TRUE
  /\ \E bn \in BaseNodeOutcomes(rawNodes, rawEdges) :
       /\ baseNodes' = bn
       /\ hierarchyEdges' = HierarchyEdgesOf(rawEdges)
       /\ dependencyEdges' = DependencyEdgesOf(rawEdges)
       /\ LET v == View(viewMode, focusNodeId, bn, HierarchyEdgesOf(rawEdges),
                        DependencyEdgesOf(rawEdges))
          IN  nodes' = v.nodes /\ edges' = v.edges
  /\ UNCHANGED <<doc, viewMode, focusNodeId, contextMenu, lastEvent>>

\* Re-render after a state update: the view is derived from the new state.
Rerender(mode, focus) ==
  LET v == View(mode, focus, baseNodes, hierarchyEdges, dependencyEdges)
  IN  nodes' = v.nodes /\ edges' = v.edges

hideContextMenu == contextMenu' = [contextMenu EXCEPT !.visible = FALSE]

DisplayedIds == {nodes[i].id : i \in 1..Len(nodes)}

onNodeClick ==
  /\ mounted
  /\ \E n \in DisplayedIds : lastEvent' = Event("nodeClick", n)
  /\ hideContextMenu
  /\ Rerender(viewMode, focusNodeId)
  /\ UNCHANGED <<doc, mounted, base, viewMode, focusNodeId>>

EdgeDisplayed ==
  \E i \in 1..Len(edges) :
    edges[i].source \in DisplayedIds /\ edges[i].target \in DisplayedIds

\* Mutant: the edge click only logs and leaves the menu open.
onEdgeClickKeepsMenu ==
  /\ mounted
  /\ EdgeDisplayed
  /\ lastEvent' = Event("edgeClick", undefined)
  /\ Rerender(viewMode, focusNodeId)
  /\ UNCHANGED <<doc, mounted, base, viewMode, focusNodeId, contextMenu>>

\* An edge is drawn, and can be clicked, when both its ends are displayed.
onEdgeClick ==
  /\ mounted
  /\ EdgeDisplayed
  /\ lastEvent' = Event("edgeClick", undefined)
  /\ hideContextMenu
  /\ Rerender(viewMode, focusNodeId)
  /\ UNCHANGED <<doc, mounted, base, viewMode, focusNodeId>>

\* Mutant: a click on the canvas also returns to the global view.
onPaneClickResetsView ==
  /\ mounted
  /\ lastEvent' = Event("paneClick", undefined)
  /\ hideContextMenu
  /\ viewMode' = "GLOBAL"
  /\ focusNodeId' = null
  /\ Rerender("GLOBAL", null)
  /\ UNCHANGED <<doc, mounted, base>>

onPaneClick ==
  /\ mounted
  /\ lastEvent' = Event("paneClick", undefined)
  /\ hideContextMenu
  /\ Rerender(viewMode, focusNodeId)
  /\ UNCHANGED <<doc, mounted, base, viewMode, focusNodeId>>

onPaneContextMenu ==
  /\ mounted
  /\ \E p \in Pointers :
       contextMenu' = [visible |-> TRUE, x |-> p.x, y |-> p.y,
                       type |-> "canvas", nodeId |-> undefined]
  /\ lastEvent' = Event("paneContextMenu", undefined)
  /\ Rerender(viewMode, focusNodeId)
  /\ UNCHANGED <<doc, mounted, base, viewMode, focusNodeId>>

onNodeContextMenu ==
  /\ mounted
  /\ \E p \in Pointers, n \in DisplayedIds :
       /\ contextMenu' = [visible |-> TRUE, x |-> p.x, y |-> p.y,
                          type |-> "node", nodeId |-> n]
       /\ lastEvent' = Event("nodeContextMenu", n)
  /\ Rerender(viewMode, focusNodeId)
  /\ UNCHANGED <<doc, mounted, base, viewMode, focusNodeId>>

\* Mutant: the item sets the mode and leaves the focus as it is.
ReturnToWbsKeepsFocus ==
  /\ mounted
  /\ contextMenu.visible
  /\ contextMenu.type = "canvas"
  /\ viewMode' = "GLOBAL"
  /\ hideContextMenu
  /\ lastEvent' = Event("returnToWbs", undefined)
  /\ Rerender("GLOBAL", focusNodeId)
  /\ UNCHANGED <<doc, mounted, base, focusNodeId>>

\* Canvas menu item "WBS ni modoru" (return to WBS).
ReturnToWbsItem ==
  /\ mounted
  /\ contextMenu.visible
  /\ contextMenu.type = "canvas"
  /\ viewMode' = "GLOBAL"
  /\ focusNodeId' = null
  /\ hideContextMenu
  /\ lastEvent' = Event("returnToWbs", undefined)
  /\ Rerender("GLOBAL", null)
  /\ UNCHANGED <<doc, mounted, base>>

\* Mutant: the item sets the focus and leaves the mode as it is.
ShowConnectedKeepsMode ==
  /\ mounted
  /\ contextMenu.visible
  /\ contextMenu.type = "node"
  /\ IF Truthy(contextMenu.nodeId)
     THEN focusNodeId' = contextMenu.nodeId
     ELSE UNCHANGED focusNodeId
  /\ hideContextMenu
  /\ lastEvent' = Event("showConnected", lastEvent.nodeId)
  /\ Rerender(viewMode, focusNodeId')
  /\ UNCHANGED <<doc, mounted, base, viewMode>>

\* Node menu item: show the nodes connected to the menu's node.
ShowConnectedItem ==
  /\ mounted
  /\ contextMenu.visible
  /\ contextMenu.type = "node"
  /\ IF Truthy(contextMenu.nodeId)
     THEN /\ viewMode' = "LOCAL"
          /\ focusNodeId' = contextMenu.nodeId
     ELSE UNCHANGED <<viewMode, focusNodeId>>
  /\ hideContextMenu
  /\ lastEvent' = Event("showConnected", lastEvent.nodeId)
  /\ Rerender(viewMode', focusNodeId')
  /\ UNCHANGED <<doc, mounted, base>>

\* Node menu item: create a connected node (placeholder: log, alert, close).
CreateConnectedItem ==
  /\ mounted
  /\ contextMenu.visible
  /\ contextMenu.type = "node"
  /\ hideContextMenu
  /\ lastEvent' = Event("createConnected", lastEvent.nodeId)
  /\ Rerender(viewMode, focusNodeId)
  /\ UNCHANGED <<doc, mounted, base, viewMode, focusNodeId>>

\* ---------------------------------------------------- specifications
LayoutIds == IdPool \ {<<>>}
ViewIds == IdPool \ {<<"1", "a">>}

\* Edge-array bounds of the view and controller specifications.
ViewEdges == MaxEdges - 1
UiEdges == MaxEdges - 2

\* One node array per subset of ids.
NodeSets(ids, n) ==
  {a \in NodeArrays(ids, n) :
     \A i, j \in 1..Len(a) : i < j => compareIds(a[i].id, a[j].id) < 0}

LayoutNodeArrays == NodeArrays(LayoutIds, MaxNodes)
LayoutEdgeArrays == EdgeArrays(LayoutIds, 1, MaxEdges)
ViewNodeArrays == NodeSets(ViewIds, MaxNodes)
ViewEdgeArrays == EdgeArrays(ViewIds, ViewEdges, ViewEdges)
UiEdgeArrays == EdgeArrays(ViewIds, UiEdges, UiEdges)

\* The layout function on its inputs: every document of the bounded family.
InitLayout ==
  /\ rawNodes \in LayoutNodeArrays
  /\ rawEdges \in LayoutEdgeArrays
  /\ viewMode = "GLOBAL"
  /\ focusNodeId = null
  /\ InitState

SpecLayout == InitLayout /\ [][Mount]_vars

\* The view function on its inputs: every view state, valid or not.
InitView ==
  /\ rawNodes \in ViewNodeArrays
  /\ rawEdges \in ViewEdgeArrays
  /\ viewMode \in {"GLOBAL", "LOCAL"}
  /\ focusNodeId \in ViewIds \cup {null}
  /\ InitState

SpecView == InitView /\ [][Mount]_vars

\* The component: mounted on a document, then driven by gestures.
Init ==
  /\ rawNodes \in ViewNodeArrays
  /\ rawEdges \in UiEdgeArrays
  /\ viewMode = "GLOBAL"
  /\ focusNodeId = null
  /\ InitState

Next ==
  \/ Mount
  \/ onNodeClick
  \/ onEdgeClick
  \/ onPaneClick
  \/ onPaneContextMenu
  \/ onNodeContextMenu
  \/ ReturnToWbsItem
  \/ ShowConnectedItem
  \/ CreateConnectedItem

Spec == Init /\ [][Next]_vars

\* -------------------------------------------------------- properties
BaseIds == {baseNodes[i].id : i \in 1..Len(baseNodes)}
RawIds == {rawNodes[i].id : i \in 1..Len(rawNodes)}
RawHierarchy == {rawEdges[i] : i \in {k \in 1..Len(rawEdges) :
                                        rawEdges[k].type = "HIERARCHY"}}

\* Ids within k HIERARCHY hops, source to target, of some root.
RECURSIVE WithinHops(_)
WithinHops(k) ==
  IF k = 0
  THEN {id \in RawIds : \A e \in RawHierarchy : e.target # id}
  ELSE LET nearer == WithinHops(k - 1)
       IN  nearer \cup {e.target : e \in {h \in RawHierarchy : h.source \in nearer}}

\* The depth the layout is to give a node: its distance from the nearest
\* root, and 0 for a node no root reaches.
ExpectedDepth(id) ==
  IF id \in WithinHops(Len(rawEdges))
  THEN CHOOSE k \in 0..Len(rawEdges) :
         /\ id \in WithinHops(k)
         /\ k > 0 => id \notin WithinHops(k - 1)
  ELSE 0

C2_SiblingOrderIsTotal ==
  mounted =>
    /\ \A a, b, c \in BaseIds :
         compareIds(a, b) < 0 /\ compareIds(b, c) < 0 => compareIds(a, c) < 0
    /\ \A i, j \in 1..Len(baseNodes) :
         (i < j /\ baseNodes[i].position.x = baseNodes[j].position.x)
           => compareIds(baseNodes[i].id, baseNodes[j].id) < 0

\* The ids of the HIERARCHY edges of the document, in document order.
RawHierarchyIds ==
  LET sel == SelectSeq(rawEdges, LAMBDA e : e.type = "HIERARCHY")
  IN  [i \in 1..Len(sel) |-> sel[i].id]

\* C3: in GLOBAL mode, in LOCAL mode without a focus, and in LOCAL mode with
\* a focus that is no base node, the view is the base node sequence and the
\* HIERARCHY edges of the document in document order: no dependency edge is
\* shown.
C3_FallbackIsGlobalView ==
  (mounted /\ (viewMode = "GLOBAL" \/ focusNodeId = null
                 \/ focusNodeId \notin BaseIds))
    => /\ nodes = baseNodes
       /\ [i \in 1..Len(edges) |-> edges[i].id] = RawHierarchyIds
       /\ \A i \in 1..Len(edges) : edges[i].wbsType = "HIERARCHY"

\* LOCAL mode with a focus that is not loaded, on a document that has
\* dependency edges.
C3_Witness ==
  /\ mounted
  /\ viewMode = "LOCAL"
  /\ focusNodeId # null
  /\ focusNodeId \notin BaseIds
  /\ baseNodes # <<>>
  /\ \E i \in 1..Len(rawEdges) : rawEdges[i].type # "HIERARCHY"
  /\ nodes = baseNodes

\* The document's edges that have the focus as source or target.
RawIncident(f) ==
  {rawEdges[i] : i \in {k \in 1..Len(rawEdges) :
                          rawEdges[k].source = f \/ rawEdges[k].target = f}}

\* The loaded nodes at the other end of an edge incident to the focus.
OtherEnds(f) ==
  {id \in RawIds : \E e \in RawIncident(f) :
     (e.source = f /\ e.target = id) \/ (e.target = f /\ e.source = id)}

ValidLocal == mounted /\ viewMode = "LOCAL" /\ focusNodeId \in BaseIds

\* C4: in LOCAL mode with a loaded focus F, the shown nodes are F and the
\* loaded nodes at the other end of an edge incident to F, each once, and
\* the shown edges are exactly the edges incident to F.
C4_LocalViewIsNeighborhood ==
  ValidLocal =>
    /\ {nodes[i].id : i \in 1..Len(nodes)} = {focusNodeId} \cup OtherEnds(focusNodeId)
    /\ \A i, j \in 1..Len(nodes) : i # j => nodes[i].id # nodes[j].id
    /\ {edges[i].id : i \in 1..Len(edges)} = {e.id : e \in RawIncident(focusNodeId)}
    /\ Len(edges) = Cardinality(RawIncident(focusNodeId))

\* The neighbors of the focus in base node order.
NeighborsInBaseOrder(f) ==
  SelectSeq([i \in 1..Len(baseNodes) |-> baseNodes[i].id],
            LAMBDA id : id \in OtherEnds(f))

RightClicks == {"paneContextMenu", "nodeContextMenu"}

\* C6: after a right-click on the canvas the canvas menu with "return to
\* WBS" is shown, and after that item is activated the mode is GLOBAL, no
\* node is focused and the menu is hidden, whatever the mode was.
C6_ReturnToWbsResets ==
  /\ lastEvent.kind = "paneContextMenu"
       => contextMenu.visible /\ contextMenu.type = "canvas"
  /\ lastEvent.kind = "returnToWbs"
       => viewMode = "GLOBAL" /\ focusNodeId = null /\ ~contextMenu.visible

C6_Witness ==
  /\ lastEvent.kind = "returnToWbs"
  /\ lastEvent.prevMode = "LOCAL"
  /\ viewMode = "GLOBAL"

\* C7: after a right-click on a displayed node N the node menu is shown, and
\* after "show connected nodes" is activated the mode is LOCAL, the focus is
\* N and the menu is hidden, for every node id N.
C7_ShowConnectedFocuses ==
  /\ lastEvent.kind = "nodeContextMenu"
       => contextMenu.visible /\ contextMenu.type = "node"
  /\ lastEvent.kind = "showConnected"
       => /\ viewMode = "LOCAL"
          /\ focusNodeId = lastEvent.nodeId
          /\ ~contextMenu.visible

ViewChanging == {"returnToWbs", "showConnected"}

\* C8: a gesture other than "return to WBS" and "show connected nodes"
\* leaves the view mode, the focus and the base layout as they were.
C8_FrameCondition ==
  [][(mounted /\ lastEvent'.kind \notin ViewChanging)
       => UNCHANGED <<viewMode, focusNodeId, baseNodes, hierarchyEdges,
                      dependencyEdges>>]_vars

\* The placeholder item was activated in LOCAL mode.
C8_Witness ==
  /\ lastEvent.kind = "createConnected"
  /\ lastEvent.prevMode = "LOCAL"
  /\ viewMode = "LOCAL"

MenuItems == {"returnToWbs", "showConnected", "createConnected"}

MenuKindOf(item) == IF item = "returnToWbs" THEN "canvas" ELSE "node"

\* C9: the menu is visible exactly when the most recent gesture was a
\* right-click, and a menu item is activated only from a visible menu of
\* its kind, opened by the gesture just before.
C9_MenuLifecycle ==
  /\ [](contextMenu.visible <=> lastEvent.kind \in RightClicks)
  /\ [][(lastEvent'.kind \in MenuItems /\ lastEvent' # lastEvent)
          => /\ contextMenu.visible
             /\ contextMenu.type = MenuKindOf(lastEvent'.kind)
             /\ lastEvent.kind \in RightClicks
             /\ ~contextMenu'.visible]_vars

\* A left-click closed a menu that a right-click on a node had opened.
C9_Witness ==
  /\ lastEvent.kind \in {"nodeClick", "edgeClick", "paneClick"}
  /\ contextMenu.type = "node"
  /\ ~contextMenu.visible

\* C10: the mode is GLOBAL exactly when no node is focused, and in LOCAL
\* mode the focus is a base node for which the star view is derived.
C10_ModeFocusInvariant ==
  /\ viewMode = "GLOBAL" <=> focusNodeId = null
  /\ viewMode = "LOCAL"
       => /\ focusNodeId \in BaseIds
          /\ Truthy(focusNodeId)
          /\ nodes[1].id = focusNodeId
          /\ edges = IncidentEdges(focusNodeId, hierarchyEdges, dependencyEdges)

C10_Witness ==
  /\ viewMode = "LOCAL"
  /\ focusNodeId \in BaseIds
  /\ Len(nodes) < Len(baseNodes)

====
